---- MODULE Spec2Model ----
(***************************************************************************)
(* menuPlugin (qt creator/assets/menuplugin.cpp): the Qt Designer custom   *)
(* widget plugin that wraps the widget class `menu`.                       *)
(*                                                                         *)
(* The state is the plugin object, the widgets it has put on the heap, and *)
(* the form editor cores handed to initialize.  Every public method is one *)
(* action; the host (Qt Designer) may call them in any order.  Each call   *)
(* records the method, its argument and its return value, so that what a   *)
(* method returned can be stated as a property of the state.               *)
(*                                                                         *)
(* QString values are sequences of one-character strings, so that the      *)
(* text returned by domXml() can be scanned for its attributes.            *)
(***************************************************************************)
EXTENDS Integers, Sequences, FiniteSets, TLC

\* Bounds of the model (not program constants).
MaxWidgets == 2
NumContainers == 1
NumCores == 2

VARIABLES
    plugin,             \* the menuPlugin object: its field m_initialized and its QObject parent
    heap,               \* widgets allocated by createWidget: pointer -> [class, parent]
    coreExt,            \* per form editor core: number of extensions registered on it
    regRuns,            \* history: how often the section guarded by the flag (lines 15-17) ran
    initializeCalled,   \* history: initialize has been called at least once
    created,            \* history: one entry per createWidget call, in call order
    lastCall,           \* the method called last ("none" after construction)
    prevCall,           \* the method called before lastCall
    lastArg,            \* the argument of the last call
    ret                 \* the value the last call returned

vars == <<plugin, heap, coreExt, regRuns, initializeCalled, created,
          lastCall, prevCall, lastArg, ret>>

----------------------------------------------------------------------------
\* Pointers.

Ptr(kind, id) == [kind |-> kind, id |-> id]

nullptr == Ptr("null", 0)

\* Widgets owned by the host that it may pass as a parent.
Containers == {Ptr("host", i) : i \in 1..NumContainers}

\* The QDesignerFormEditorInterface objects the host may pass to initialize.
Cores == {Ptr("core", i) : i \in 1..NumCores}

noArg == Ptr("none", 0)

void == "void"

\* The address `new` returns: an object that is not on the heap yet.
NewPtr(h) == Ptr("menu", Cardinality(DOMAIN h) + 1)

\* Any QWidget* a caller can hold: null, a host widget, a widget created earlier.
WidgetPtrs == {nullptr} \cup Containers \cup DOMAIN heap

----------------------------------------------------------------------------
\* The wrapped widget type and its header.

\* The class constructed by `new menu(parent)`.
menuClass == <<"m", "e", "n", "u">>

\* #include "menu.h": the header that declares the class.
menuHeader == <<"m", "e", "n", "u", ".", "h">>

\* menu::menu(QWidget *parent): a widget of class menu with that parent.
menu(parent) == [class |-> menuClass, parent |-> parent]

\* QIcon(): the null icon.
QIcon == [isNull |-> TRUE]

----------------------------------------------------------------------------
\* The plugin object.

\* The value the class gives m_initialized at construction.
m_initialized_default == FALSE

\* menuPlugin::menuPlugin(QObject *parent) : QObject(parent) {}
menuPlugin(parent) == [m_initialized |-> m_initialized_default, parent |-> parent]

\* Variant: reports success without looking at the flag.
isInitialized_alwaysTrue(this) == TRUE

\* bool menuPlugin::isInitialized() const
isInitialized(this) == this.m_initialized

\* Variant: no name is advertised until the plugin is initialized.
name_onceInitialized(this) == IF this.m_initialized THEN <<"m", "e", "n", "u">> ELSE <<>>

\* QString menuPlugin::name() const
name(this) == <<"m", "e", "n", "u">>

\* QString menuPlugin::group() const
group(this) == <<>>

\* QIcon menuPlugin::icon() const
icon(this) == QIcon

\* QString menuPlugin::toolTip() const
toolTip(this) == <<>>

\* QString menuPlugin::whatsThis() const
whatsThis(this) == <<>>

\* bool menuPlugin::isContainer() const
isContainer(this) == FALSE

\* Variant: the class attribute is spelled with a capital.
domXml_capitalClass(this) ==
    <<"<", "w", "i", "d", "g", "e", "t", " ",
      "c", "l", "a", "s", "s", "=", "\"", "M", "e", "n", "u", "\"", " ",
      "n", "a", "m", "e", "=", "\"", "m", "e", "n", "u", "\"", ">", "\n",
      "<", "/", "w", "i", "d", "g", "e", "t", ">">>

\* QString menuPlugin::domXml() const
domXml(this) ==
    <<"<", "w", "i", "d", "g", "e", "t", " ",
      "c", "l", "a", "s", "s", "=", "\"", "m", "e", "n", "u", "\"", " ",
      "n", "a", "m", "e", "=", "\"", "m", "e", "n", "u", "\"", ">", "\n",
      "<", "/", "w", "i", "d", "g", "e", "t", ">">>

\* Variant: the plugin's own header instead of the widget's.
includeFile_pluginHeader(this) ==
    <<"m", "e", "n", "u", "p", "l", "u", "g", "i", "n", ".", "h">>

\* QString menuPlugin::includeFile() const
includeFile(this) == <<"m", "e", "n", "u", ".", "h">>

----------------------------------------------------------------------------
\* The calls.

\* A call of a const method: it returns v and writes nothing.
ConstCall(method, v) ==
    /\ prevCall' = lastCall
    /\ lastCall' = method
    /\ lastArg' = noArg
    /\ ret' = v
    /\ UNCHANGED <<plugin, heap, coreExt, regRuns, initializeCalled, created>>

\* Variant: the early return on m_initialized is missing.
initialize_noGuard(core) ==
    /\ regRuns' = regRuns + 1
    /\ plugin' = [plugin EXCEPT !.m_initialized = TRUE]
    /\ initializeCalled' = TRUE
    /\ prevCall' = lastCall
    /\ lastCall' = "initialize"
    /\ lastArg' = core
    /\ ret' = void
    /\ UNCHANGED <<heap, coreExt, created>>

\* Variant: the flag is flipped instead of set.
initialize_toggle(core) ==
    /\ regRuns' = IF plugin.m_initialized THEN regRuns ELSE regRuns + 1
    /\ plugin' = [plugin EXCEPT !.m_initialized = ~plugin.m_initialized]
    /\ initializeCalled' = TRUE
    /\ prevCall' = lastCall
    /\ lastCall' = "initialize"
    /\ lastArg' = core
    /\ ret' = void
    /\ UNCHANGED <<heap, coreExt, created>>

\* Variant: the guarded section registers an extension on the core.
initialize_registers(core) ==
    /\ IF plugin.m_initialized
         THEN UNCHANGED <<plugin, regRuns, coreExt>>
         ELSE /\ regRuns' = regRuns + 1
              /\ coreExt' = [coreExt EXCEPT ![core] = @ + 1]
              /\ plugin' = [plugin EXCEPT !.m_initialized = TRUE]
    /\ initializeCalled' = TRUE
    /\ prevCall' = lastCall
    /\ lastCall' = "initialize"
    /\ lastArg' = core
    /\ ret' = void
    /\ UNCHANGED <<heap, created>>

\* void menuPlugin::initialize(QDesignerFormEditorInterface * /* core */)
initialize(core) ==
    /\ IF plugin.m_initialized
         THEN UNCHANGED <<plugin, regRuns>>
         ELSE /\ regRuns' = regRuns + 1
              /\ plugin' = [plugin EXCEPT !.m_initialized = TRUE]
    /\ initializeCalled' = TRUE
    /\ prevCall' = lastCall
    /\ lastCall' = "initialize"
    /\ lastArg' = core
    /\ ret' = void
    /\ UNCHANGED <<heap, coreExt, created>>

\* Variant: one widget is created on first use and handed out again afterwards.
createWidget_shared(parent) ==
    LET w == Ptr("menu", 1) IN
    /\ heap' = [p \in DOMAIN heap \cup {w} |-> IF p = w THEN menu(parent) ELSE heap[p]]
    /\ created' = Append(created, [ptr |-> w, initialized |-> plugin.m_initialized])
    /\ prevCall' = lastCall
    /\ lastCall' = "createWidget"
    /\ lastArg' = parent
    /\ ret' = w
    /\ UNCHANGED <<plugin, coreExt, regRuns, initializeCalled>>

\* QWidget *menuPlugin::createWidget(QWidget *parent)
createWidget(parent) ==
    LET w == NewPtr(heap) IN
    /\ heap' = [p \in DOMAIN heap \cup {w} |-> IF p = w THEN menu(parent) ELSE heap[p]]
    /\ created' = Append(created, [ptr |-> w, initialized |-> plugin.m_initialized])
    /\ prevCall' = lastCall
    /\ lastCall' = "createWidget"
    /\ lastArg' = parent
    /\ ret' = w
    /\ UNCHANGED <<plugin, coreExt, regRuns, initializeCalled>>

IsInitialized ==
    /\ ConstCall("isInitialized", isInitialized(plugin))

Name ==
    /\ ConstCall("name", name(plugin))

Group ==
    /\ ConstCall("group", group(plugin))

Icon ==
    /\ ConstCall("icon", icon(plugin))

ToolTip ==
    /\ ConstCall("toolTip", toolTip(plugin))

WhatsThis ==
    /\ ConstCall("whatsThis", whatsThis(plugin))

IsContainer ==
    /\ ConstCall("isContainer", isContainer(plugin))

DomXml ==
    /\ ConstCall("domXml", domXml(plugin))

IncludeFile ==
    /\ ConstCall("includeFile", includeFile(plugin))

Initialize == \E core \in Cores : initialize(core)

CreateWidget ==
    /\ Len(created) < MaxWidgets
    /\ \E parent \in WidgetPtrs : createWidget(parent)

----------------------------------------------------------------------------

Init ==
    /\ plugin \in {menuPlugin(parent) : parent \in {nullptr} \cup Containers}
    /\ heap = [p \in {} |-> menu(nullptr)]
    /\ coreExt = [c \in Cores |-> 0]
    /\ regRuns = 0
    /\ initializeCalled = FALSE
    /\ created = <<>>
    /\ lastCall = "none"
    /\ prevCall = "none"
    /\ lastArg = noArg
    /\ ret = void

Next ==
    \/ Initialize
    \/ IsInitialized
    \/ CreateWidget
    \/ Name
    \/ Group
    \/ Icon
    \/ ToolTip
    \/ WhatsThis
    \/ IsContainer
    \/ DomXml
    \/ IncludeFile

Spec == Init /\ [][Next]_vars

----------------------------------------------------------------------------
\* Reading the text the accessors return.

\* Does text t hold the characters of k from position i on?
HasAt(t, k, i) == i + Len(k) - 1 <= Len(t) /\ SubSeq(t, i, i + Len(k) - 1) = k

StartsWith(t, k) == HasAt(t, k, 1)

EndsWith(t, k) == Len(k) <= Len(t) /\ HasAt(t, k, Len(t) - Len(k) + 1)

Quote == "\""

\* The value of attribute attr in the first tag of xml: the text between
\* ` attr="` and the next quote; <<"?">> when the attribute is not there.
Attr(xml, attr) ==
    LET key == <<" ">> \o attr \o <<"=", Quote>>
        at == {i \in 1..Len(xml) : HasAt(xml, key, i)}
    IN  IF at = {} THEN <<"?">>
        ELSE LET from == (CHOOSE i \in at : \A j \in at : i <= j) + Len(key)
                 close == {j \in from..Len(xml) : xml[j] = Quote}
             IN  IF close = {} THEN <<"?">>
                 ELSE SubSeq(xml, from, (CHOOSE j \in close : \A k \in close : j <= k) - 1)

\* The methods that take no argument and are declared const.
Accessors ==
    {"name", "group", "icon", "toolTip", "whatsThis", "isContainer", "domXml", "includeFile"}

\* What method m returns when called on plugin object `this`.
ReturnOf(m, this) ==
    CASE m = "initialize" -> void
      [] m = "isInitialized" -> isInitialized(this)
      [] m = "name" -> name(this)
      [] m = "group" -> group(this)
      [] m = "icon" -> icon(this)
      [] m = "toolTip" -> toolTip(this)
      [] m = "whatsThis" -> whatsThis(this)
      [] m = "isContainer" -> isContainer(this)
      [] m = "domXml" -> domXml(this)
      [] m = "includeFile" -> includeFile(this)

\* A plugin object on which nothing has been called yet.
FreshPlugin == menuPlugin(nullptr)

\* Everything a call could write other than the flag.
Others == <<plugin.parent, heap, coreExt, created>>

----------------------------------------------------------------------------
\* C1: initialize is idempotent. After any initialize call the flag is set;
\* an initialize call that directly follows an initialize call (with any core
\* argument) changes nothing of the plugin, the heap or the cores; and the
\* section guarded by the flag runs at most once in any sequence of calls.
C1_InitializeIdempotent ==
    /\ [](lastCall = "initialize" => plugin.m_initialized)
    /\ [](regRuns <= 1)
    /\ [][(lastCall = "initialize" /\ lastCall' = "initialize")
            => UNCHANGED <<plugin, heap, coreExt, created, regRuns>>]_vars

\* initialize has just been called twice in a row, with different cores.
C1_Witness ==
    /\ prevCall = "initialize"
    /\ lastCall = "initialize"
    /\ lastArg = Ptr("core", 2)
    /\ regRuns = 1
    /\ plugin.m_initialized

\* C2: the flag is set once and never cleared. No step of any interleaving of
\* the methods takes m_initialized from true to false, and a step that changes
\* it is a call of initialize.
C2_FlagSetOnceNeverCleared ==
    [][/\ plugin.m_initialized => plugin'.m_initialized
       /\ plugin'.m_initialized # plugin.m_initialized => lastCall' = "initialize"]_vars

\* The flag is still set two calls after it was set, a widget having been created.
C2_Witness ==
    /\ plugin.m_initialized
    /\ lastCall \notin {"initialize", "none"}
    /\ prevCall \notin {"initialize", "none"}
    /\ \E i \in 1..Len(created) : created[i].initialized

\* C3: createWidget(parent) returns a new instance of the wrapped widget whose
\* parent is the caller's parent. The pointer returned is not null, was not on
\* the heap before the call and was returned by no earlier call; the object it
\* points to is of class menu and has the parent passed in; the widgets
\* created before are left as they were. The flag plays no part.
C3_CreateWidgetNewInstance ==
    [][lastCall' = "createWidget" =>
        /\ ret' # nullptr
        /\ ret' \notin DOMAIN heap
        /\ \A i \in 1..Len(created) : created[i].ptr # ret'
        /\ ret' \in DOMAIN heap'
        /\ heap'[ret'].class = <<"m", "e", "n", "u">>
        /\ heap'[ret'].parent = lastArg'
        /\ \A p \in DOMAIN heap : heap'[p] = heap[p]
        /\ Len(created') = Len(created) + 1
        /\ Cardinality(DOMAIN heap') = Len(created')]_vars

\* Two widgets exist, one created before initialize and one after it, the
\* second with the first as its parent.
C3_Witness ==
    /\ lastCall = "createWidget"
    /\ Len(created) = 2
    /\ ~created[1].initialized
    /\ created[2].initialized
    /\ created[1].ptr # created[2].ptr
    /\ ret = created[2].ptr
    /\ heap[ret].parent = created[1].ptr

\* C4: the metadata accessors return fixed values and are pure. Whatever the
\* state, name() returned "menu", group(), toolTip() and whatsThis() the empty
\* string, icon() the null icon, isContainer() false, includeFile() "menu.h"
\* and domXml() a widget element with class "menu" and name "menu"; and a
\* call of any of them changes nothing of the plugin, the heap or the cores.
C4_AccessorsFixedAndPure ==
    /\ [](/\ lastCall = "name" => ret = <<"m", "e", "n", "u">>
          /\ lastCall \in {"group", "toolTip", "whatsThis"} => ret = <<>>
          /\ lastCall = "icon" => ret.isNull
          /\ lastCall = "isContainer" => ret = FALSE
          /\ lastCall = "includeFile" => ret = <<"m", "e", "n", "u", ".", "h">>
          /\ lastCall = "domXml" =>
                /\ StartsWith(ret, <<"<", "w", "i", "d", "g", "e", "t", " ">>)
                /\ EndsWith(ret, <<"<", "/", "w", "i", "d", "g", "e", "t", ">">>)
                /\ Attr(ret, <<"c", "l", "a", "s", "s">>) = <<"m", "e", "n", "u">>
                /\ Attr(ret, <<"n", "a", "m", "e">>) = <<"m", "e", "n", "u">>
                /\ ret = domXml(FreshPlugin))
    /\ [][lastCall' \in Accessors =>
            UNCHANGED <<plugin, heap, coreExt, created, regRuns>>]_vars

\* domXml() has been called on an initialized plugin that has created a widget.
C4_Witness ==
    /\ lastCall = "domXml"
    /\ prevCall = "includeFile"
    /\ plugin.m_initialized
    /\ Len(created) > 0

\* C5 as stated: every method other than createWidget returns, in every
\* reachable state, the value it returns on a plugin nothing was called on.
C5_EveryMethodConstant ==
    lastCall \in Accessors \cup {"initialize", "isInitialized"}
        => ret = ReturnOf(lastCall, FreshPlugin)

\* C5 amended: every method other than createWidget and isInitialized returns
\* the same value in every reachable state; isInitialized returns the flag.
C5_ConstantExceptIsInitialized ==
    /\ lastCall \in Accessors \cup {"initialize"} => ret = ReturnOf(lastCall, FreshPlugin)
    /\ lastCall = "isInitialized" => ret = plugin.m_initialized

\* name() has been called on an initialized plugin: a state other than the fresh one.
C5_Witness ==
    /\ lastCall = "name"
    /\ plugin.m_initialized
    /\ plugin # FreshPlugin
    /\ Len(created) > 0

\* C6: the plugin is stateless but for the flag. createWidget, isInitialized
\* and the accessors leave m_initialized as it is, and initialize changes
\* nothing but m_initialized: no widget is created and no core is touched.
\* No method changes the plugin's parent or a core.
C6_StatelessExceptFlag ==
    [][/\ lastCall' # "initialize" => plugin' = plugin
       /\ lastCall' = "initialize" => Others' = Others
       /\ lastCall' # "createWidget" => heap' = heap /\ created' = created
       /\ plugin'.parent = plugin.parent
       /\ coreExt' = coreExt]_vars

\* initialize has just set the flag, with a widget on the heap and every core untouched.
C6_Witness ==
    /\ lastCall = "initialize"
    /\ prevCall = "createWidget"
    /\ plugin.m_initialized
    /\ DOMAIN heap # {}
    /\ \A c \in Cores : coreExt[c] = 0

\* C7: isInitialized reports whether initialize has been called. On a fresh
\* plugin it returns false; whenever it is called it returns true exactly if
\* an initialize call has returned before, and the same holds of what it
\* would return in the current state.
C7_IsInitializedReportsInitialize ==
    /\ isInitialized(FreshPlugin) = FALSE
    /\ lastCall = "none" => isInitialized(plugin) = FALSE
    /\ isInitialized(plugin) = initializeCalled
    /\ lastCall = "isInitialized" => ret = initializeCalled

\* isInitialized has returned true right after the first initialize call.
C7_Witness ==
    /\ lastCall = "isInitialized"
    /\ prevCall = "initialize"
    /\ ret = TRUE
    /\ initializeCalled

\* C8: the advertised metadata is self-consistent. In every reachable state
\* the class attribute of domXml() is name(), which is the class of every
\* widget createWidget has constructed, and includeFile() is the header of
\* that class, menu.h.
C8_MetadataConsistent ==
    /\ Attr(domXml(plugin), <<"c", "l", "a", "s", "s">>) = name(plugin)
    /\ name(plugin) = menuClass
    /\ \A p \in DOMAIN heap : heap[p].class = name(plugin)
    /\ includeFile(plugin) = menuHeader
    /\ includeFile(plugin) = name(plugin) \o <<".", "h">>

\* A widget has been created and the plugin is initialized.
C8_Witness ==
    /\ DOMAIN heap # {}
    /\ \E p \in DOMAIN heap : heap[p].class = menuClass
    /\ plugin.m_initialized
    /\ lastCall = "createWidget"

====
